---- MODULE Spec2Model ----
(***************************************************************************)
(* Calgooo server (src/index.js, the server of lines 142-433): in-memory   *)
(* store, onboarding plan, meal log, streak overrides and the streak       *)
(* summary.                                                                *)
(*                                                                         *)
(* Calendar dates ('YYYY-MM-DD' keys) are day numbers: date d+1 is the day *)
(* after date d.  The process clock is the variable today; the server is   *)
(* taken to run in UTC, so that isoDate() and the local-date stepping of   *)
(* buildSummary name the same day.                                         *)
(* Numbers that arrive in requests are decimal fixed-point values in       *)
(* tenths (720 is 72.0); Math.round is computed exactly (round half up).   *)
(* Ids, file names and timestamps (Date.now, Math.random) are left out of  *)
(* the records; no modelled handler reads them.                            *)
(***************************************************************************)
EXTENDS Integers, Sequences, FiniteSets, TLC

VARIABLES
    user,             \* store.user: planGoal, goals, profile.weightKg
    mealsByDate,      \* store.mealsByDate: date -> meals, newest first
    streakOverrides,  \* store.streakOverrides: date -> boolean
    uploads,          \* store.uploads: the upload records, newest first
    today,            \* the day of the process clock, isoDate()
    req,              \* the last event handled, with the handler's locals
    resp              \* the body of the last response sent

vars == <<user, mealsByDate, streakOverrides, uploads, today, req, resp>>

goals == user.goals

(* ------------------------------ bounds --------------------------------- *)
MaxMeals == 2
MaxUploads == 1
MaxTicks == 1

(* ------------------------------ numbers -------------------------------- *)
\* A rational number m * 10^e / d (d > 0), the exact value of a JS double
\* expression; kept split so that every intermediate stays in 32 bits.
Rat(m, e, d) == [m |-> m, e |-> e, d |-> d]

RECURSIVE LongDiv(_, _, _, _)
\* <<floor(x), remainder>> of x = (q + r/d) * 10^e
LongDiv(q, r, e, d) ==
    IF e = 0 THEN <<q, r>>
    ELSE LongDiv(10 * q + ((10 * r) \div d), (10 * r) % d, e - 1, d)

\* Math.round: the nearest integer, halves rounded toward +Infinity
MathRound(x) ==
    LET qr == LongDiv(x.m \div x.d, x.m % x.d, x.e, x.d)
    IN  qr[1] + (IF 2 * qr[2] >= x.d THEN 1 ELSE 0)

\* a request number given in tenths
Tenths(v) == Rat(v, 0, 10)

Abs(x) == IF x < 0 THEN -x ELSE x
Max(a, b) == IF a >= b THEN a ELSE b
Min(a, b) == IF a <= b THEN a ELSE b

clamp(v, a, b) == Max(a, Min(b, v))

\* lb / 2.20462262 = lb * 50000000 / 110231131, lb given in tenths
lbToKg(lbTenths) == Rat(lbTenths * 5, 6, 110231131)

\* x * k / 10 for a small integer k (k = 300 is x * 30, k = 18 is x * 1.8)
ScaleTenths(x, k) ==
    IF x.e > 0 THEN Rat(x.m * k, x.e - 1, x.d) ELSE Rat(x.m * k, 0, x.d * 10)

(* ------------------------------ parseInt ------------------------------- *)
Digits == <<"0", "1", "2", "3", "4", "5", "6", "7", "8", "9">>
IsDigit(c) == \E i \in 1..10 : Digits[i] = c
DigitVal(c) == (CHOOSE i \in 1..10 : Digits[i] = c) - 1

NaN == [nan |-> TRUE, v |-> 0]
Num(v) == [nan |-> FALSE, v |-> v]

RECURSIVE SkipSpace(_)
SkipSpace(s) == IF s # <<>> /\ Head(s) = " " THEN SkipSpace(Tail(s)) ELSE s

RECURSIVE DigitRun(_, _, _)
\* value of the longest digit prefix of s; n counts the digits consumed
DigitRun(s, acc, n) ==
    IF s # <<>> /\ IsDigit(Head(s))
    THEN DigitRun(Tail(s), 10 * acc + DigitVal(Head(s)), n + 1)
    ELSE <<acc, n>>

\* parseInt(string, 10): leading blanks, an optional sign, then the longest
\* run of decimal digits; NaN when there is no digit
parseInt(str) ==
    LET s    == SkipSpace(str)
        neg  == s # <<>> /\ Head(s) = "-"
        body == IF s # <<>> /\ Head(s) \in {"-", "+"} THEN Tail(s) ELSE s
        run  == DigitRun(body, 0, 0)
    IN  IF run[2] = 0 THEN NaN ELSE Num(IF neg THEN -run[1] ELSE run[1])

\* x || dflt on a number: NaN and 0 are falsy
OrDefault(x, dflt) == IF x.nan \/ x.v = 0 THEN dflt ELSE x.v

(* ------------------------------- store --------------------------------- *)
InitUser ==
    [planGoal |-> "maintain",
     goals |-> [caloriesKcal |-> 2200, proteinG |-> 100, carbsG |-> 275,
                fatG |-> 70, fiberG |-> 30],
     weightKg |-> 70]

ZeroMacros ==
    [caloriesKcal |-> 0, proteinG |-> 0, carbsG |-> 0, fatG |-> 0, fiberG |-> 0]

AddMacros(acc, m) ==
    [caloriesKcal |-> acc.caloriesKcal + m.caloriesKcal,
     proteinG     |-> acc.proteinG + m.proteinG,
     carbsG       |-> acc.carbsG + m.carbsG,
     fatG         |-> acc.fatG + m.fatG,
     fiberG       |-> acc.fiberG + m.fiberG]

RECURSIVE Reduce(_, _)
Reduce(items, acc) ==
    IF items = <<>> THEN acc ELSE Reduce(Tail(items), AddMacros(acc, Head(items).macros))

\* the meal list of a date, store.mealsByDate[date] || []
MealsOf(meals, date) == IF date \in DOMAIN meals THEN meals[date] ELSE <<>>

TotalsIn(meals, date) == Reduce(MealsOf(meals, date), ZeroMacros)

totalsForDate(date) == TotalsIn(mealsByDate, date)

(* --------------------------- plan fabrication -------------------------- *)
fabricatePlan(goal, weightKg) ==
    LET maintain == MathRound(ScaleTenths(weightKg, 300))
        calories == IF goal = "lose" THEN MathRound(Rat(maintain * 80, 0, 100))
                    ELSE IF goal = "gain" THEN MathRound(Rat(maintain * 115, 0, 100))
                    ELSE maintain
        proteinG == MathRound(ScaleTenths(weightKg, 18))
        fatG     == MathRound(ScaleTenths(weightKg, 8))
        kcalFromPF == proteinG * 4 + fatG * 9
        carbsG   == Max(0, MathRound(Rat(calories - kcalFromPF, 0, 4)))
    IN  [goal |-> goal, caloriesKcal |-> calories, proteinG |-> proteinG,
         carbsG |-> carbsG, fatG |-> fatG, fiberG |-> 30]

(* ---------------------------- streak scoring --------------------------- *)
\* HitIn with the override read as override || hasMeals
HitIn_OrMeals(ovr, meals, date) ==
    LET hasMeals == TotalsIn(meals, date).caloriesKcal > 0
    IN  (date \in DOMAIN ovr /\ ovr[date]) \/ hasMeals

\* the hit of a date: the override when it is a boolean, else hasMeals
HitIn(ovr, meals, date) ==
    LET hasMeals == TotalsIn(meals, date).caloriesKcal > 0
    IN  IF date \in DOMAIN ovr THEN ovr[date] ELSE hasMeals

\* ScoreOf with the thresholds in an else-if chain, loosest first
ScoreOf_ElseIf(totalKcal, goalKcal) ==
    LET num == 100 * Abs(totalKcal - goalKcal)
        den == Max(1, goalKcal)
    IN  IF num <= 25 * den THEN 1
        ELSE IF num <= 12 * den THEN 2
        ELSE IF num <= 8 * den THEN 3
        ELSE IF num <= 5 * den THEN 4
        ELSE 1

\* the threshold cascade; diff <= p/100 is 100 * |t - g| <= p * max(1, g)
ScoreOf(totalKcal, goalKcal) ==
    LET num == 100 * Abs(totalKcal - goalKcal)
        den == Max(1, goalKcal)
        s0  == 1
        s1  == IF num <= 25 * den THEN 1 ELSE s0
        s2  == IF num <= 12 * den THEN 2 ELSE s1
        s3  == IF num <= 8 * den THEN 3 ELSE s2
        s4  == IF num <= 5 * den THEN 4 ELSE s3
    IN  Max(0, Min(4, s4))

\* dayStat without the early return of a miss
dayStat_NoEarlyReturn(date) ==
    [date |-> date, hit |-> HitIn(streakOverrides, mealsByDate, date),
     score |-> ScoreOf(totalsForDate(date).caloriesKcal, goals.caloriesKcal)]

dayStat(date) ==
    LET hit == HitIn(streakOverrides, mealsByDate, date)
    IN  IF ~hit THEN [date |-> date, hit |-> FALSE, score |-> 0]
        ELSE [date |-> date, hit |-> TRUE,
              score |-> ScoreOf(totalsForDate(date).caloriesKcal, goals.caloriesKcal)]

BADGE_Tiers == <<7, 14, 30, 60, 90, 120>>

\* StreakStep with best updated before cur is incremented
StreakStep_MaxFirst(st, day) ==
    IF day.hit THEN [cur |-> st.cur + 1, best |-> Max(st.best, st.cur)]
    ELSE [cur |-> 0, best |-> st.best]

\* if (days[i].hit) { cur++; best = Math.max(best, cur); } else { cur = 0; }
StreakStep(st, day) ==
    IF day.hit THEN [cur |-> st.cur + 1, best |-> Max(st.best, st.cur + 1)]
    ELSE [cur |-> 0, best |-> st.best]

\* if (days[i].hit) trailing++; else break;
TrailingStep(st, day) ==
    IF st.broken THEN st
    ELSE IF day.hit THEN [trailing |-> st.trailing + 1, broken |-> FALSE]
    ELSE [trailing |-> st.trailing, broken |-> TRUE]

RECURSIVE StreakRun(_, _, _, _)
\* the iterations lo..hi of for (let i = 0; i < days.length; i++)
StreakRun(days, lo, hi, st) ==
    IF lo > hi THEN st ELSE StreakRun(days, lo + 1, hi, StreakStep(st, days[lo]))

\* The forward loop from cur = 0, best = 0.  The iterations are run a week
\* at a time, and the test st = st makes TLC evaluate the state a week
\* starts from before it runs the week, which keeps its evaluation stack
\* shallow; the result is that of the plain loop.
BestOf(days) ==
    LET n == Len(days)
        after[k \in 0..((n + 6) \div 7)] ==
            IF k = 0 THEN [cur |-> 0, best |-> 0]
            ELSE LET st == after[k - 1]
                 IN  IF st = st
                     THEN StreakRun(days, 7 * (k - 1) + 1, Min(7 * k, n), st)
                     ELSE st
    IN  after[(n + 6) \div 7].best

RECURSIVE TrailingRun(_, _, _, _)
\* the iterations hi down to lo of for (let i = days.length - 1; i >= 0; i--)
TrailingRun(days, hi, lo, st) ==
    IF hi < lo THEN st ELSE TrailingRun(days, hi - 1, lo, TrailingStep(st, days[hi]))

\* the backward loop from trailing = 0, a week at a time as in BestOf
TrailingOf(days) ==
    LET n == Len(days)
        after[k \in 0..((n + 6) \div 7)] ==
            IF k = 0 THEN [trailing |-> 0, broken |-> FALSE]
            ELSE LET st == after[k - 1]
                 IN  IF st = st
                     THEN TrailingRun(days, n - 7 * (k - 1), Max(1, n - 7 * k + 1), st)
                     ELSE st
    IN  after[(n + 6) \div 7].trailing

\* days.slice(-n)
SliceLast(days, n) == SubSeq(days, Max(1, Len(days) - n + 1), Len(days))

HitCount(days) == Cardinality({i \in 1..Len(days) : days[i].hit})

\* TierEarned with a strict comparison
TierEarned_Strict(best, t) == best > t

TierEarned(best, t) == best >= t

EarnedTiers(best) == SelectSeq(BADGE_Tiers, LAMBDA t : TierEarned(best, t))

\* const w = clamp(parseInt(weeks, 10) || 12, 1, 26); weeks defaults to 12
WeeksOf(weeks) ==
    clamp(OrDefault(IF weeks.t = "undefined" THEN Num(12) ELSE parseInt(weeks.s), 12), 1, 26)

\* SummaryGoals with the goal the process starts with
SummaryGoals_Initial == [caloriesKcal |-> InitUser.goals.caloriesKcal]

SummaryGoals == [caloriesKcal |-> goals.caloriesKcal]

buildSummary(weeks) ==
    LET w         == WeeksOf(weeks)
        daysCount == w * 7
        start     == today - (daysCount - 1)
        days      == SubSeq([i \in 1..daysCount |-> dayStat(start + (i - 1))], 1, daysCount)
        best      == BestOf(days)
        trailing  == TrailingOf(days)
    IN  [kind |-> "summary",
         range |-> [start |-> days[1].date, end |-> days[Len(days)].date, weeks |-> w],
         goals |-> SummaryGoals,
         days |-> days,
         currentStreak |-> trailing,
         bestStreak |-> best,
         hits7 |-> HitCount(SliceLast(days, 7)),
         hits30 |-> HitCount(SliceLast(days, 30)),
         earnedTiers |-> EarnedTiers(best)]

(* ------------------------------- inputs -------------------------------- *)
Undef == [t |-> "undefined"]
Number(v) == [t |-> "number", v |-> v]
Bool(b) == [t |-> "boolean", v |-> b]
Str(s) == [t |-> "string", s |-> s]

\* date keys a client sends; day 0 is the day the process starts
DateInputs == {0}

DateOrNone(ds) == {Number(d) : d \in ds} \cup {Undef}

HitInputs == {Bool(TRUE), Bool(FALSE), Undef, Str(<<"1">>)}

WeeksInputs ==
    {Undef, Str(<<"0">>), Str(<<"1">>), Str(<<"1", "0", "0", "0">>),
     Str(<<"a", "b", "c">>), Str(<<"-", "3">>), Str(<<"2", "6">>),
     Str(<<" ", "2", "x">>), Str(<<"2", "7">>)}

NoWeight == [unit |-> "none", value |-> 0]

\* goal and weight of an onboarding payload, the weight in tenths
BootstrapInputs ==
    {[goal |-> "bulk", weight |-> NoWeight],
     [goal |-> "maintain", weight |-> [unit |-> "kg", value |-> 720]],
     [goal |-> "lose", weight |-> [unit |-> "lb", value |-> 1540]],
     [goal |-> "gain", weight |-> [unit |-> "kg", value |-> -700]]}

\* macros of a request, in tenths
MacroInputs ==
    {[caloriesKcal |-> Number(19995), proteinG |-> Number(304), carbsG |-> Number(2500),
      fatG |-> Number(0), fiberG |-> Undef],
     [caloriesKcal |-> Number(4), proteinG |-> Number(45), carbsG |-> Undef,
      fatG |-> Number(15), fiberG |-> Number(26)]}

NoMacros == [caloriesKcal |-> Undef, proteinG |-> Undef, carbsG |-> Undef,
             fatG |-> Undef, fiberG |-> Undef]

MealBody(date, type, macros, hasMacros) ==
    [date |-> date, type |-> type, macros |-> macros, hasMacros |-> hasMacros]

MealInputs ==
    {MealBody(Number(0), "Snack", m, TRUE) : m \in MacroInputs}
    \cup {MealBody(Undef, "Snack", NoMacros, TRUE),
          MealBody(Number(0), "", NoMacros, TRUE),
          MealBody(Number(0), "Snack", NoMacros, FALSE)}

(* ------------------------------- routes -------------------------------- *)
Init ==
    /\ user = InitUser
    /\ mealsByDate = <<>>
    /\ streakOverrides = <<>>
    /\ uploads = <<>>
    /\ today = 0
    /\ req = [op |-> "start"]
    /\ resp = [kind |-> "none"]

\* Number(x) || dflt on a number of the request body
NumberOr(x, dflt) == IF x = 0 THEN dflt ELSE x

\* POST /v1/users/bootstrap
Bootstrap(goal, weight) ==
    LET weightKg == IF weight.unit = "kg" THEN Tenths(NumberOr(weight.value, 700))
                    ELSE IF weight.unit = "lb" THEN lbToKg(NumberOr(weight.value, 1540))
                    ELSE Tenths(700)
        planGoal == IF goal \in {"gain", "lose", "maintain"} THEN goal ELSE "maintain"
        plan     == fabricatePlan(planGoal, weightKg)
        newGoals == [caloriesKcal |-> plan.caloriesKcal, proteinG |-> plan.proteinG,
                     carbsG |-> plan.carbsG, fatG |-> plan.fatG, fiberG |-> plan.fiberG]
    IN  /\ user' = [planGoal |-> planGoal, goals |-> newGoals,
                    weightKg |-> MathRound(weightKg)]
        /\ req' = [op |-> "bootstrap"]
        /\ resp' = [kind |-> "bootstrap", ok |-> TRUE, plan |-> plan, goals |-> newGoals]
        /\ UNCHANGED <<mealsByDate, streakOverrides, uploads, today>>

\* Math.round(x || 0) on a field of the request's macros
RoundOrZero(x) == IF x.t = "number" THEN MathRound(Tenths(x.v)) ELSE 0

RECURSIVE SumLen(_, _)
SumLen(meals, ds) ==
    IF ds = {} THEN 0
    ELSE LET d == CHOOSE x \in ds : TRUE IN Len(meals[d]) + SumLen(meals, ds \ {d})

\* the number of meals stored
MealCount == SumLen(mealsByDate, DOMAIN mealsByDate)

\* POST /v1/meals
LogMeal(body) ==
    /\ MealCount < MaxMeals
    /\ req' = [op |-> "meal"]
    /\ IF body.date.t = "undefined" \/ body.type = "" \/ ~body.hasMacros
       THEN /\ resp' = [kind |-> "error", status |-> 400, code |-> "bad_request"]
            /\ UNCHANGED <<user, mealsByDate, streakOverrides, uploads, today>>
       ELSE LET date == body.date.v
                item == [type |-> body.type,
                         macros |-> [caloriesKcal |-> RoundOrZero(body.macros.caloriesKcal),
                                     proteinG |-> RoundOrZero(body.macros.proteinG),
                                     carbsG |-> RoundOrZero(body.macros.carbsG),
                                     fatG |-> RoundOrZero(body.macros.fatG),
                                     fiberG |-> RoundOrZero(body.macros.fiberG)]]
                meals == (date :> (<<item>> \o MealsOf(mealsByDate, date))) @@ mealsByDate
            IN  /\ mealsByDate' = meals
                /\ resp' = [kind |-> "meal", accepted |-> TRUE, item |-> item,
                            totals |-> TotalsIn(meals, date)]
                /\ UNCHANGED <<user, streakOverrides, uploads, today>>

\* LogValue with a toggle that always marks the day done
LogValue_AlwaysDone(hit, cur) == IF hit.t = "boolean" THEN hit.v ELSE TRUE

\* the override POST /v1/streaks/log writes, given the body's hit and the
\* hit of the date before the write
LogValue(hit, cur) == IF hit.t = "boolean" THEN hit.v ELSE ~cur

\* POST /v1/streaks/log
StreaksLog(dateIn, hit) ==
    LET date == IF dateIn.t = "undefined" THEN today ELSE dateIn.v
        cur  == dayStat(date).hit
        new  == LogValue(hit, cur)
    IN  /\ streakOverrides' = (date :> new) @@ streakOverrides
        /\ req' = [op |-> "log", date |-> date, hit |-> hit, cur |-> cur]
        /\ resp' = [kind |-> "log", date |-> date, hit |-> new]
        /\ UNCHANGED <<user, mealsByDate, uploads, today>>

\* POST /v1/scan/analyze
Scan(hasFile) ==
    /\ req' = [op |-> "scan"]
    /\ IF ~hasFile
       THEN /\ resp' = [kind |-> "error", status |-> 400, code |-> "no_file"]
            /\ UNCHANGED <<user, mealsByDate, streakOverrides, uploads, today>>
       ELSE /\ Len(uploads) < MaxUploads
            /\ uploads' = <<[id |-> "img"]>> \o uploads
            /\ streakOverrides' = (today :> TRUE) @@ streakOverrides
            /\ resp' = [kind |-> "scan", image |-> [id |-> "img"]]
            /\ UNCHANGED <<user, mealsByDate, today>>

\* GET /v1/streaks/summary
Summary(weeks) ==
    /\ req' = [op |-> "summary", weeks |-> weeks]
    /\ resp' = buildSummary(weeks)
    /\ UNCHANGED <<user, mealsByDate, streakOverrides, uploads, today>>

\* midnight: the clock moves to the next day
Tick ==
    /\ today < MaxTicks
    /\ today' = today + 1
    /\ req' = [op |-> "tick"]
    /\ UNCHANGED <<user, mealsByDate, streakOverrides, uploads, resp>>

\* the weeks parameters of the summary requests of Spec
WeeksFew == {Undef, Str(<<"1">>)}

Next ==
    \/ \E b \in BootstrapInputs : Bootstrap(b.goal, b.weight)
    \/ \E b \in MealInputs : LogMeal(b)
    \/ \E d \in DateOrNone(DateInputs), h \in HitInputs : StreaksLog(d, h)
    \/ \E f \in BOOLEAN : Scan(f)
    \/ \E w \in WeeksFew : Summary(w)
    \/ Tick

Spec == Init /\ [][Next]_vars

(* ------------------------- long streak windows ------------------------- *)
\* Stores left by a series of POST /v1/streaks/log {date, hit: true} calls,
\* one for each day of a run of days first..last.
RunInputs == {<<1, 0>>, <<-181, 0>>, <<-125, -3>>, <<-95, -6>>, <<-12, 0>>}

InitWindow ==
    /\ user = InitUser
    /\ mealsByDate = <<>>
    /\ \E r \in RunInputs : streakOverrides = [d \in r[1]..r[2] |-> TRUE]
    /\ uploads = <<>>
    /\ today = 0
    /\ req = [op |-> "start"]
    /\ resp = [kind |-> "none"]

WindowDates == {-7, 0}

NextWindow ==
    \/ \E d \in DateOrNone(WindowDates), h \in HitInputs : StreaksLog(d, h)
    \/ \E w \in WeeksInputs : Summary(w)
    \/ Tick

SpecWindow == InitWindow /\ [][NextWindow]_vars

(* ------------------------------ properties ----------------------------- *)
\* the dates the store or a request of the model names
KnownDates == DOMAIN mealsByDate \cup DOMAIN streakOverrides \cup DateInputs \cup {today}

Store == <<user, mealsByDate, streakOverrides, uploads>>

AllTiers == <<7, 14, 30, 60, 90, 120>>

\* 100 * |totals - goal| and max(1, goal): diff <= p/100 iff Dev <= p * Den
Dev(date) == 100 * Abs(totalsForDate(date).caloriesKcal - goals.caloriesKcal)
Den == IF goals.caloriesKcal >= 1 THEN goals.caloriesKcal ELSE 1

\* the score the thresholds 0.05, 0.08, 0.12 give a hit day
BandScore(date) ==
    IF Dev(date) <= 5 * Den THEN 4
    ELSE IF Dev(date) <= 8 * Den THEN 3
    ELSE IF Dev(date) <= 12 * Den THEN 2
    ELSE 1

\* the hit a date has by its override, or else by its calorie total
StoreHit(date) ==
    IF date \in DOMAIN streakOverrides THEN streakOverrides[date]
    ELSE totalsForDate(date).caloriesKcal > 0

\* days i .. i+len-1 of a window are all hit days
IsRun(days, i, len) == \A k \in i..(i + len - 1) : days[k].hit

\* b is the length of the longest run of hit days of the window
IsLongestRun(days, b) ==
    /\ b \in 0..Len(days)
    /\ b > 0 => \E i \in 1..(Len(days) - b + 1) : IsRun(days, i, b)
    /\ ~ \E i \in 1..(Len(days) - b) : IsRun(days, i, b + 1)

\* c is the length of the run of hit days that ends at the last day
IsTrailingRun(days, c) ==
    /\ c \in 0..Len(days)
    /\ IsRun(days, Len(days) - c + 1, c)
    /\ c < Len(days) => ~days[Len(days) - c].hit

\* C1: a summary has weeks in 1..26 and weeks*7 days; the weeks parameter
\* "0" gives 1 week (7 days), "1000" gives 26 weeks (182 days), "abc" and a
\* missing parameter give 12 weeks (84 days).
C1_WeeksClamped ==
    req.op = "summary" =>
        /\ resp.range.weeks \in 1..26
        /\ Len(resp.days) = resp.range.weeks * 7
        /\ req.weeks = Str(<<"0">>) => resp.range.weeks = 1 /\ Len(resp.days) = 7
        /\ req.weeks = Str(<<"1", "0", "0", "0">>) =>
               resp.range.weeks = 26 /\ Len(resp.days) = 182
        /\ req.weeks = Str(<<"a", "b", "c">>) =>
               resp.range.weeks = 12 /\ Len(resp.days) = 84
        /\ req.weeks = Undef => resp.range.weeks = 12 /\ Len(resp.days) = 84

\* C2: a date whose override is present is classified with hit equal to
\* the override, whatever its meals, by dayStat and in every summary; the
\* hit POST /v1/streaks/log returns is the hit the date is classified with
\* next, and it is true after a log with hit = true.
C2_OverrideDecidesHit ==
    /\ \A d \in DOMAIN streakOverrides : dayStat(d).hit = streakOverrides[d]
    /\ req.op = "summary" =>
           \A i \in 1..Len(resp.days) :
               resp.days[i].date \in DOMAIN streakOverrides =>
                   resp.days[i].hit = streakOverrides[resp.days[i].date]
    /\ req.op = "log" =>
           /\ dayStat(req.date).hit = resp.hit
           /\ req.hit = Bool(TRUE) => dayStat(req.date).hit

\* a log with hit = false has just overridden a date whose meals have calories
C2_Witness ==
    /\ req.op = "log"
    /\ req.hit = Bool(FALSE)
    /\ totalsForDate(req.date).caloriesKcal > 0
    /\ ~dayStat(req.date).hit

\* C3: a date with no override is a hit exactly when at least one meal has
\* been logged for it, and with no meal it has hit = false and score = 0.
C3_HitIffMealLogged ==
    \A d \in KnownDates \ DOMAIN streakOverrides :
        /\ dayStat(d).hit <=> Len(MealsOf(mealsByDate, d)) >= 1
        /\ MealsOf(mealsByDate, d) = <<>> => ~dayStat(d).hit /\ dayStat(d).score = 0

\* C4: every classification, of dayStat and of every summary, has a score
\* in 0..4, a positive score only on a hit day and score 0 on a miss.
C4_ScoreRange ==
    /\ \A d \in KnownDates :
           /\ dayStat(d).score \in 0..4
           /\ dayStat(d).score > 0 => dayStat(d).hit
           /\ ~dayStat(d).hit => dayStat(d).score = 0
    /\ req.op = "summary" =>
           \A i \in 1..Len(resp.days) :
               /\ resp.days[i].score \in 0..4
               /\ resp.days[i].score > 0 => resp.days[i].hit
               /\ ~resp.days[i].hit => resp.days[i].score = 0

\* a summary with a miss and with a hit day of score 4
C4_Witness ==
    /\ req.op = "summary"
    /\ \E i \in 1..Len(resp.days) : ~resp.days[i].hit
    /\ \E i \in 1..Len(resp.days) : resp.days[i].hit /\ resp.days[i].score = 4

\* C5: a hit day scores 4 if diff <= 0.05, else 3 if diff <= 0.08, else 2
\* if diff <= 0.12, else 1, with diff = |totals - goal| / max(1, goal): never
\* 0, 1 when diff > 0.25, 4 when the totals equal the goal, and no lower than
\* the score of a hit day with a larger diff.
C5_ScoreBands ==
    \A d \in KnownDates :
        dayStat(d).hit =>
            /\ dayStat(d).score = BandScore(d)
            /\ dayStat(d).score >= 1
            /\ Dev(d) > 25 * Den => dayStat(d).score = 1
            /\ totalsForDate(d).caloriesKcal = goals.caloriesKcal => dayStat(d).score = 4
            /\ \A e \in KnownDates :
                   dayStat(e).hit /\ Dev(d) <= Dev(e) => dayStat(d).score >= dayStat(e).score

\* a day with no meal forced to a hit scores 1 while another hit day scores 3
C5_Witness ==
    /\ \E d \in DOMAIN streakOverrides :
           /\ streakOverrides[d]
           /\ MealsOf(mealsByDate, d) = <<>>
           /\ dayStat(d).score = 1
    /\ \E e \in KnownDates : dayStat(e).hit /\ dayStat(e).score = 3

\* C6: in every summary bestStreak >= currentStreak, bestStreak being the
\* longest run of hit days of the window and currentStreak the run of hit
\* days that ends at its last day.
C6_BestAtLeastCurrent ==
    req.op = "summary" =>
        /\ resp.bestStreak >= resp.currentStreak
        /\ IsLongestRun(resp.days, resp.bestStreak)
        /\ IsTrailingRun(resp.days, resp.currentStreak)

\* a summary whose best run is longer than the run at its end
C6_Witness ==
    /\ req.op = "summary"
    /\ resp.currentStreak > 0
    /\ resp.bestStreak > resp.currentStreak

\* C7: earnedTiers is the tier list 7, 14, 30, 60, 90, 120 cut to the tiers
\* <= bestStreak, in order: all six for an all-hit window of 120 days or
\* more, none for an all-miss window, whose four counters are 0.
C7_EarnedTiers ==
    req.op = "summary" =>
        /\ resp.earnedTiers = SelectSeq(AllTiers, LAMBDA t : t <= resp.bestStreak)
        /\ (Len(resp.days) >= 120 /\ IsRun(resp.days, 1, Len(resp.days))) =>
               resp.earnedTiers = AllTiers
        /\ (\A i \in 1..Len(resp.days) : ~resp.days[i].hit) =>
               /\ resp.currentStreak = 0 /\ resp.bestStreak = 0
               /\ resp.hits7 = 0 /\ resp.hits30 = 0
               /\ resp.earnedTiers = <<>>

\* a summary of an all-hit window of 120 days or more
C7_Witness ==
    /\ req.op = "summary"
    /\ Len(resp.days) >= 120
    /\ IsRun(resp.days, 1, Len(resp.days))
    /\ resp.earnedTiers = AllTiers

\* C8: a POST /v1/streaks/log with no boolean hit writes and returns the
\* negation of the hit the date had before, leaves every other override,
\* the meals and the goal alone, and right after another such toggle of the
\* same date gives the date the hit it had before the first.
C8_Toggle ==
    [][(req'.op = "log" /\ req'.hit.t # "boolean") =>
          /\ streakOverrides'[req'.date] = ~dayStat(req'.date).hit
          /\ resp'.date = req'.date
          /\ resp'.hit = streakOverrides'[req'.date]
          /\ DOMAIN streakOverrides' = DOMAIN streakOverrides \cup {req'.date}
          /\ \A d \in DOMAIN streakOverrides \ {req'.date} :
                 streakOverrides'[d] = streakOverrides[d]
          /\ UNCHANGED <<user, mealsByDate>>
          /\ (req.op = "log" /\ req.hit.t # "boolean" /\ req.date = req'.date) =>
                 dayStat(req.date)'.hit = req.cur]_vars

\* a toggle has just turned a hit day into a miss
C8_Witness ==
    /\ req.op = "log"
    /\ req.hit.t # "boolean"
    /\ req.cur
    /\ ~dayStat(req.date).hit

\* the five fields of a MacroSet are >= 0
NonNegative(m) ==
    /\ m.caloriesKcal >= 0 /\ m.proteinG >= 0 /\ m.carbsG >= 0
    /\ m.fatG >= 0 /\ m.fiberG >= 0

\* C9: every stored meal's macros, every date's totals and the goal have
\* five fields >= 0.
C9_MacroSetsNonNegative ==
    /\ NonNegative(goals)
    /\ \A d \in DOMAIN mealsByDate :
           /\ NonNegative(totalsForDate(d))
           /\ \A i \in 1..Len(mealsByDate[d]) : NonNegative(mealsByDate[d][i].macros)

\* C10: a summary is computed from the goal, the overrides and the meals
\* as they are when it is requested: its goal snapshot is the current goal,
\* each of its days, past days included, has the hit and the score the
\* store gives that date, and the request leaves the store unchanged.
C10_SummaryReadsStore ==
    [][req'.op = "summary" =>
          /\ Store' = Store
          /\ resp'.goals.caloriesKcal = user.goals.caloriesKcal
          /\ resp'.range.end = today
          /\ \A i \in 1..Len(resp'.days) :
                 LET day == resp'.days[i]
                 IN  /\ day.date = today - Len(resp'.days) + i
                     /\ day.hit = StoreHit(day.date)
                     /\ day.score = IF StoreHit(day.date) THEN BandScore(day.date) ELSE 0]_vars

\* a summary after a change of goal, with a past hit day scored 3 or 4
C10_Witness ==
    /\ req.op = "summary"
    /\ user.goals.caloriesKcal # InitUser.goals.caloriesKcal
    /\ \E i \in 1..Len(resp.days) :
           /\ resp.days[i].date < today
           /\ resp.days[i].hit
           /\ resp.days[i].score >= 3

====
